---- MODULE Spec2Model ----
(***************************************************************************)
(* Flappy Bird: the obstacle pool (PipePool / Pipe), the player (Bird)     *)
(* and the game state machine with its frame loop (Game).                  *)
(*                                                                         *)
(* Units.  Horizontal positions are pixels.  Vertical positions and        *)
(* velocities of the bird are kept in 1/YScale pixel so that GRAVITY (0.4) *)
(* is an integer; a frame delta of dt milliseconds is handed to the        *)
(* entities as dt/16 and the model draws dt from multiples of 16.  The     *)
(* score is kept in units of 0.5 point (POINTS_PER_PIPE).                  *)
(***************************************************************************)
EXTENDS Integers, Sequences, FiniteSets, TLC

VARIABLES
  pool,            \* PipePool.pool: the free list (sequence of pipes)
  activeObjects,   \* PipePool.activeObjects: the active list
  created,         \* PipePool.stats.created: number of Pipe objects made
  lastResult,      \* history: the last call, and what it returned or met
  currentState,    \* Game.currentState
  previousState,   \* Game.previousState
  bird,            \* Game.bird
  score,           \* Game.score, in units of 0.5 point
  bestScore,       \* Game.bestScore, same unit
  currentLevel,    \* Game.currentLevel
  gameTime,        \* Game.gameTime (ms)
  lastPipeTime,    \* Game.lastPipeTime (ms)
  deltaTime,       \* Game.deltaTime (ms)
  pausedTime,      \* Game.pausedTime (ms)
  lastFrameTime,   \* Game.lastFrameTime (ms)
  now,             \* performance.now() (ms since the page loaded)
  loopStarted,     \* Game.start() has run: frame callbacks are scheduled
  gamesPlayed,     \* Game.stats.gamesPlayed
  regModals,       \* registration modals in the DOM
  nickModal,       \* a nickname modal is in the DOM
  lbFlows,         \* showLeaderboard calls that will still call restart()
  totalScore,      \* Game.stats.totalScore, in units of 0.5 point
  saveScore,       \* the firebaseManager.saveScore call endGame awaits
  pairsCrossed,    \* history: pairs whose right edge moved left of the bird
  sm               \* a StateManager: its fields, its state objects and the
                   \* changeState / pushState / popState calls in flight

poolVars == <<pool, activeObjects, created, lastResult>>
gameVars == <<currentState, previousState, bird, score, bestScore,
              currentLevel, gameTime, lastPipeTime, deltaTime, pausedTime,
              lastFrameTime, now, loopStarted, gamesPlayed, regModals,
              nickModal, lbFlows, totalScore, saveScore, pairsCrossed, sm>>
vars == <<pool, activeObjects, created, lastResult, currentState,
          previousState, bird, score, bestScore, currentLevel, gameTime,
          lastPipeTime, deltaTime, pausedTime, lastFrameTime, now,
          loopStarted, gamesPlayed, regModals, nickModal, lbFlows,
          totalScore, saveScore, pairsCrossed, sm>>

---------------------------------------------------------------------------
(* Configuration (Constants.js)                                            *)

YScale == 5

BOARD_WIDTH == 360
BOARD_HEIGHT == 640
BIRD_WIDTH == 34
BIRD_HEIGHT == 24
BIRD_INITIAL_X == 45
BIRD_INITIAL_Y == 320
\* -6 px/frame, 0.4 px/frame^2 and 8 px/frame, in 1/YScale pixel
JUMP_VELOCITY == (0 - 6) * YScale
GRAVITY == 2
MAX_FALL_SPEED == 8 * YScale
PIPE_WIDTH == 64
PIPE_HEIGHT == 512
PIPE_INITIAL_X == 360
\* -2 px per normalised frame
VELOCITY_X == 0 - 2
SPAWN_INTERVAL == 1500
\* 0.5 point, in units of 0.5 point
POINTS_PER_PIPE == 1
\* 20 points, in units of 0.5 point
LEVEL_2_THRESHOLD == 40
\* LEVELS[level].difficulty.gapSize
GapSize(level) == IF level = 2 THEN 90 ELSE 106
\* PipePool constructor default for initialSize
DefaultInitialSize == 20
\* updateGameplay hands deltaTime / 16 to the entities
FrameMs == 16

LOADING == "loading"
MENU == "menu"
PLAYING == "playing"
PAUSED == "paused"
GAME_OVER == "gameOver"
States == {LOADING, MENU, PLAYING, PAUSED, GAME_OVER}

---------------------------------------------------------------------------
(* Bounds of the model                                                     *)

\* PipePool runs: largest initialSize handed to the constructor
MaxInitialSize == 1
\* PipePool runs: Pipe objects the pool may allocate in total
MaxCreated == 3
\* Game runs with every input: cap on performance.now() (ms)
MaxNow == 2000
\* Game runs of one player flying: cap on performance.now() (ms)
MaxRunNow == 4900
\* Game runs with steady frames and the restart key: cap on performance.now() (ms)
MaxBestNow == 5100
\* Game runs up to the second level: cap on performance.now() (ms)
MaxLevelNow == 75000
\* StateManager runs: cap on the changeState / pushState / popState calls
\* that are accepted
MaxSMCalls == 3
\* Game runs: cap on Game.pausedTime (ms)
MaxPausedTime == 240
\* Game runs: cap on stats.gamesPlayed
MaxGames == 2
\* Game runs: registration modals / leaderboard flows open at once
MaxModals == 1
MaxFlows == 1
\* Bird runs: cap on bird.timeAlive (frames)
MaxTimeAlive == 76

\* frame gaps (ms) the clock may produce
DtChoices == {240, 512}
\* the frame gap (ms) of a run with steady frames
SteadyDt == 240
\* Math.random() outcomes for the top pipe's y in createPipePair
RandomYChoices == {0 - 256, 0 - 192}
\* PipePool runs: arguments of acquire, updateActive and checkPassed
PoolAcquireArgs == { <<24, 418, "bottom", 2>> }
PoolDtChoices == {22}
PoolObjXChoices == {45}
\* Bird runs: deltaTime (frames) handed to update
BirdDtChoices == {4, 10, 12}
\* PipePool runs with pairs: the two halves createPipePair acquires, and the
\* rectangles (x, y in px) handed to checkCollisions
PairAcquireArgs ==
  { <<24, 0 - 184, "top", 2>>, <<24, 418, "bottom", 2>> }
PoolObjChoices ==
  { <<44, 394>>, <<44, 395>>, <<0 - 10, 327>> }

---------------------------------------------------------------------------
(* Pipe (one half of a top/bottom pair)                                    *)

\* new Pipe(config, x, y, type, level); id stands for the object's identity
NewPipe(id, x, y, type, level) ==
  [id |-> id, x |-> x, y |-> y, type |-> type, level |-> level,
   passed |-> FALSE, scored |-> FALSE]

\* Pipe.reset(x, y, type, level)
PipeReset(p, x, y, type, level) ==
  [p EXCEPT !.x = x, !.y = y, !.type = type, !.level = level,
            !.passed = FALSE, !.scored = FALSE]

\* a scoring test that takes either half of a pair
IsEitherHalf(p) == p.type \in {"top", "bottom"}

IsBottom(p) == p.type = "bottom"

\* Pipe.update(deltaTime): the pipe after the move
PipeUpdate(p, dt) == [p EXCEPT !.x = p.x + VELOCITY_X * dt]

\* Pipe.update's return value, on the moved pipe
StillAlive(p) == p.x + PIPE_WIDTH > 0

\* Pipe.isOffScreen(canvasWidth)
IsOffScreen(p) == p.x + PIPE_WIDTH < 0

\* a collision test that also counts rectangles which only touch
PipeCheckCollisionTouching(p, obj) ==
  /\ obj.x <= p.x + PIPE_WIDTH
  /\ obj.x + obj.width >= p.x
  /\ obj.y <= YScale * (p.y + PIPE_HEIGHT)
  /\ obj.y + obj.height >= YScale * p.y

\* Pipe.checkCollision(object); object.y and object.height in 1/YScale px
PipeCheckCollision(p, obj) ==
  /\ obj.x < p.x + PIPE_WIDTH
  /\ obj.x + obj.width > p.x
  /\ obj.y < YScale * (p.y + PIPE_HEIGHT)
  /\ obj.y + obj.height > YScale * p.y

\* a passed test that forgets the pipe has been reported before
PipeCheckPassedAgain(p, objX) == objX > p.x + PIPE_WIDTH

\* Pipe.checkPassed(object): the condition under which it marks and returns true
PipeCheckPassed(p, objX) == ~p.passed /\ objX > p.x + PIPE_WIDTH

\* Pipe.updateLevel(newLevel)
PipeUpdateLevel(p, newLevel) == [p EXCEPT !.level = newLevel]

---------------------------------------------------------------------------
(* PipePool: operations as functions of the two lists                      *)

\* Array.prototype.indexOf by object identity; 0 stands for -1
IndexOf(s, id) ==
  IF \E i \in 1..Len(s) : s[i].id = id
    THEN CHOOSE i \in 1..Len(s) :
           s[i].id = id /\ \A j \in 1..(i - 1) : s[j].id # id
    ELSE 0

\* Array.prototype.splice(index, 1)
Splice(s, index) == SubSeq(s, 1, index - 1) \o SubSeq(s, index + 1, Len(s))

Ids(s) == [i \in 1..Len(s) |-> s[i].id]

\* a cleanPipe that forgets the scored flag
CleanPipeKeepsScored(p) == [p EXCEPT !.passed = FALSE]

\* PipePool.cleanPipe(pipe)
CleanPipe(p) == [p EXCEPT !.passed = FALSE, !.scored = FALSE]

\* PipePool.initializePool(): initialSize pipes (0, 0, "top", 1) in the free list
InitialPool(initialSize) ==
  [i \in 1..initialSize |-> NewPipe(i, 0, 0, "top", 1)]

\* an acquire that hands a pooled pipe out without reset()
PoolAcquireNoReset(st, n, x, y, type, level) ==
  IF Len(st.pool) > 0
    THEN LET pipe == st.pool[Len(st.pool)]
         IN  [pool |-> SubSeq(st.pool, 1, Len(st.pool) - 1),
              activeObjects |-> Append(st.activeObjects, pipe),
              created |-> n, pipe |-> pipe]
    ELSE LET pipe == NewPipe(n + 1, x, y, type, level)
         IN  [pool |-> st.pool,
              activeObjects |-> Append(st.activeObjects, pipe),
              created |-> n + 1, pipe |-> pipe]

\* PipePool.acquire(x, y, type, level); n is stats.created
PoolAcquire(st, n, x, y, type, level) ==
  IF Len(st.pool) > 0
    THEN LET pipe == PipeReset(st.pool[Len(st.pool)], x, y, type, level)
         IN  [pool |-> SubSeq(st.pool, 1, Len(st.pool) - 1),
              activeObjects |-> Append(st.activeObjects, pipe),
              created |-> n, pipe |-> pipe]
    ELSE LET pipe == NewPipe(n + 1, x, y, type, level)
         IN  [pool |-> st.pool,
              activeObjects |-> Append(st.activeObjects, pipe),
              created |-> n + 1, pipe |-> pipe]

\* a release that pushes to the free list but forgets the splice
PoolReleaseKeepsActive(st, id) ==
  LET index == IndexOf(st.activeObjects, id)
  IN  IF index # 0
        THEN [pool |-> Append(st.pool, CleanPipe(st.activeObjects[index])),
              activeObjects |-> st.activeObjects,
              ok |-> TRUE]
        ELSE [pool |-> st.pool, activeObjects |-> st.activeObjects,
              ok |-> FALSE]

\* a release without the index test: splice(-1, 1) drops the last active
\* pipe and the argument is pushed to the free list whatever it is
PoolReleaseUnchecked(st, id) ==
  LET index == IndexOf(st.activeObjects, id)
      all   == st.activeObjects \o st.pool
      pipe  == IF IndexOf(all, id) # 0 THEN all[IndexOf(all, id)]
               ELSE NewPipe(id, 0, 0, "top", 1)
      at    == IF index # 0 THEN index ELSE Len(st.activeObjects)
  IN  [pool |-> Append(st.pool, CleanPipe(pipe)),
       activeObjects |-> Splice(st.activeObjects, at),
       ok |-> TRUE]

\* PipePool.release(pipe)
PoolRelease(st, id) ==
  LET index == IndexOf(st.activeObjects, id)
  IN  IF index # 0
        THEN [pool |-> Append(st.pool, CleanPipe(st.activeObjects[index])),
              activeObjects |-> Splice(st.activeObjects, index),
              ok |-> TRUE]
        ELSE [pool |-> st.pool, activeObjects |-> st.activeObjects,
              ok |-> FALSE]

\* PipePool.releaseMultiple(pipes): the lists afterwards and releasedCount
RECURSIVE PoolReleaseMultiple(_, _)
PoolReleaseMultiple(st, ids) ==
  IF ids = << >>
    THEN [pool |-> st.pool, activeObjects |-> st.activeObjects, count |-> 0]
    ELSE LET r    == PoolRelease(st, Head(ids))
             rest == PoolReleaseMultiple(r, Tail(ids))
         IN  [rest EXCEPT !.count = rest.count + (IF r.ok THEN 1 ELSE 0)]

\* PipePool.updateActive(deltaTime)
PoolUpdateActive(st, dt) ==
  LET moved == [i \in 1..Len(st.activeObjects) |->
                  PipeUpdate(st.activeObjects[i], dt)]
      pipesToRelease ==
        SelectSeq(moved, LAMBDA p : ~StillAlive(p) \/ IsOffScreen(p))
  IN  PoolReleaseMultiple([pool |-> st.pool, activeObjects |-> moved],
                          Ids(pipesToRelease))

\* PipePool.checkCollisions(object): the first overlapping active pipe's
\* index, 0 for null
PoolCheckCollisions(active, obj) ==
  IF \E i \in 1..Len(active) : PipeCheckCollision(active[i], obj)
    THEN CHOOSE i \in 1..Len(active) :
           /\ PipeCheckCollision(active[i], obj)
           /\ \A j \in 1..(i - 1) : ~PipeCheckCollision(active[j], obj)
    ELSE 0

\* PipePool.checkPassed(object): the marked active list and passedPipes
PoolCheckPassed(active, objX) ==
  [activeObjects |->
     [i \in 1..Len(active) |->
        IF PipeCheckPassed(active[i], objX)
          THEN [active[i] EXCEPT !.passed = TRUE] ELSE active[i]],
   passedPipes |->
     Ids(SelectSeq(active, LAMBDA p : PipeCheckPassed(p, objX)))]

\* Pipe.markScored() on the object with this identity, wherever it is
MarkScoredIn(s, id) ==
  [i \in 1..Len(s) |->
     IF s[i].id = id THEN [s[i] EXCEPT !.scored = TRUE] ELSE s[i]]

\* the pipe object with this identity
PipeById(st, id) ==
  LET all == st.activeObjects \o st.pool
  IN  all[IndexOf(all, id)]

\* PipePool.processScoring(passedPipes): the lists afterwards and the score
RECURSIVE PoolProcessScoring(_, _)
PoolProcessScoring(st, ids) ==
  IF ids = << >>
    THEN [pool |-> st.pool, activeObjects |-> st.activeObjects, score |-> 0]
    ELSE LET pipe == PipeById(st, Head(ids))
             hit  == IsBottom(pipe) /\ ~pipe.scored
             st1  == IF hit
                       THEN [pool |-> MarkScoredIn(st.pool, Head(ids)),
                             activeObjects |->
                               MarkScoredIn(st.activeObjects, Head(ids))]
                       ELSE [pool |-> st.pool,
                             activeObjects |-> st.activeObjects]
             rest == PoolProcessScoring(st1, Tail(ids))
         IN  [rest EXCEPT
                !.score = rest.score + (IF hit THEN POINTS_PER_PIPE ELSE 0)]

\* a clear that walks the live active list while release() splices it, and
\* so steps over every second pipe
PoolClearLiveList(st) ==
  LET ids == Ids(st.activeObjects)
  IN  PoolReleaseMultiple(st, [k \in 1..((Len(ids) + 1) \div 2) |->
                                 ids[2 * k - 1]])

\* PipePool.clear(): releaseMultiple([...this.activeObjects])
PoolClear(st) == PoolReleaseMultiple(st, Ids(st.activeObjects))

\* PipePool.updateLevel(newLevel)
PoolUpdateLevel(active, newLevel) ==
  [i \in 1..Len(active) |-> PipeUpdateLevel(active[i], newLevel)]

PoolSt == [pool |-> pool, activeObjects |-> activeObjects]

---------------------------------------------------------------------------
(* Bird                                                                    *)

Min(a, b) == IF a < b THEN a ELSE b
Max(a, b) == IF a > b THEN a ELSE b

\* canvas.height - bird.height, in 1/YScale pixel
FloorY == (BOARD_HEIGHT - BIRD_HEIGHT) * YScale

\* Bird.jump()
BirdJump(b) ==
  [b EXCEPT !.velocityY = JUMP_VELOCITY, !.currentState = "flying"]

\* Bird.updateState(), for the velocity v (thresholds -2 and 2 px/frame)
BirdUpdateState(cur, v) ==
  IF cur = "dead" THEN "dead"
  ELSE IF v < (0 - 2) * YScale THEN "flying"
  ELSE IF v > 2 * YScale THEN "falling"
  ELSE "idle"

\* Bird.die()
BirdDie(b) == [b EXCEPT !.currentState = "dead", !.velocityY = 0]

\* an update that moves the bird with the velocity it has before the clamp
BirdUpdateClampAfterMove(b, dt) ==
  LET v0 == b.velocityY + GRAVITY * dt
      v  == Min(v0, MAX_FALL_SPEED)
      y  == Max(b.y + v0 * dt, 0)
      b1 == [b EXCEPT !.timeAlive = @ + dt,
                      !.velocityY = v, !.y = y,
                      !.maxHeight = Min(@, y),
                      !.currentState = BirdUpdateState(@, v)]
  IN  IF y > FloorY
        THEN [bird |-> BirdDie([b1 EXCEPT !.y = FloorY]), alive |-> FALSE]
        ELSE [bird |-> b1, alive |-> TRUE]

\* an update without the clamp at the top of the screen
BirdUpdateNoCeiling(b, dt) ==
  LET v  == Min(b.velocityY + GRAVITY * dt, MAX_FALL_SPEED)
      y  == b.y + v * dt
      b1 == [b EXCEPT !.timeAlive = @ + dt,
                      !.velocityY = v, !.y = y,
                      !.maxHeight = Min(@, y),
                      !.currentState = BirdUpdateState(@, v)]
  IN  IF y > FloorY
        THEN [bird |-> BirdDie([b1 EXCEPT !.y = FloorY]), alive |-> FALSE]
        ELSE [bird |-> b1, alive |-> TRUE]

\* Bird.update(deltaTime): the bird afterwards and the return value
BirdUpdate(b, dt) ==
  LET v  == Min(b.velocityY + GRAVITY * dt, MAX_FALL_SPEED)
      y  == Max(b.y + v * dt, 0)
      b1 == [b EXCEPT !.timeAlive = @ + dt,
                      !.velocityY = v, !.y = y,
                      !.maxHeight = Min(@, y),
                      !.currentState = BirdUpdateState(@, v)]
  IN  IF y > FloorY
        THEN [bird |-> BirdDie([b1 EXCEPT !.y = FloorY]), alive |-> FALSE]
        ELSE [bird |-> b1, alive |-> TRUE]

\* the rectangle checkCollisions reads off the bird
BirdBox(b) ==
  [x |-> b.x, y |-> b.y, width |-> BIRD_WIDTH, height |-> BIRD_HEIGHT * YScale]

---------------------------------------------------------------------------
(* StateManager (managers/StateManager.js)                                 *)

\* null and undefined, where an object id is expected
NULL == 0
UNDEFINED == 0 - 1

\* new StateManager(): states is the Map's key set, currentState and
\* previousState and stateStack hold ids of state objects; objects are the
\* state objects made so far with the hooks they have received, calls the
\* async calls that have not returned yet
NewStateManager ==
  [states |-> {}, currentState |-> NULL, previousState |-> NULL,
   stateStack |-> << >>, isTransitioning |-> FALSE,
   objects |-> << >>, calls |-> {}, started |-> 0, pushed |-> [valid |-> FALSE]]

---------------------------------------------------------------------------
(* StateManager: the calls, step by step between their awaits              *)

\* the names state classes are registered under, and the names asked for:
\* "Unknown" is never registered
StateNames == {"A"}
RequestNames == StateNames \cup {"Unknown"}

\* every state class has all the hooks: enter, exit, pause, resume, update,
\* handleInput.  The object after new StateClass(data) and the call of
\* enter(data): history, the hooks it has received
NewStateObject ==
  [enters |-> 1, entered |-> FALSE, exits |-> 0, pauses |-> 0, resumes |-> 0]

\* `if (x) ...` on a currentState: null and undefined are falsy
Truthy(id) == id > 0

\* the hooks a state object receives
HookExit(objects, id) ==
  IF Truthy(id) THEN [objects EXCEPT ![id].exits = @ + 1] ELSE objects
HookPause(objects, id) ==
  IF Truthy(id) THEN [objects EXCEPT ![id].pauses = @ + 1] ELSE objects
HookResume(objects, id) ==
  IF Truthy(id) THEN [objects EXCEPT ![id].resumes = @ + 1] ELSE objects

\* history: what a call found when it was made
Before(s) ==
  [currentState |-> s.currentState, stateStack |-> s.stateStack,
   alone |-> s.calls = {},
   hooks |-> IF Truthy(s.currentState)
               THEN s.objects[s.currentState] ELSE NewStateObject]

\* an async call: its arguments, where it is suspended (pc), the object it
\* has constructed (obj), and history: was destroy() called meanwhile, and
\* the pushState a popState undoes (rt)
NewCall(s, kind, name, transition) ==
  [id |-> s.started + 1, kind |-> kind, name |-> name,
   transition |-> transition, pc |-> "start", obj |-> NULL,
   before |-> Before(s), destroyed |-> FALSE, rt |-> [valid |-> FALSE]]

Suspended(s, c, pc) ==
  [s EXCEPT !.calls = (@ \ {c}) \cup {[c EXCEPT !.pc = pc]}]

\* the result of one step of a call: the manager afterwards, and what the
\* call returned ("pending" while it is suspended at an await)
Step(s, ret, cause) == [sm |-> s, ret |-> ret, cause |-> cause]

\* a catch block that returns false without releasing isTransitioning
SMCatchKeepsLock(s, c, cause) ==
  Step([s EXCEPT !.calls = @ \ {c}], "false", cause)

\* the catch block: isTransitioning = false; return false
SMCatch(s, c, cause) ==
  Step([s EXCEPT !.isTransitioning = FALSE, !.calls = @ \ {c}],
       "false", cause)

\* the end of the try block: isTransitioning = false; return true.  A
\* pushState that succeeds, with no other call in flight and no destroy()
\* meanwhile, is remembered (history) until another call is accepted
SMReturnTrue(s, c) ==
  Step([s EXCEPT !.isTransitioning = FALSE, !.calls = @ \ {c},
                 !.pushed =
                   IF c.kind = "pushState" /\ ~c.destroyed /\ c.before.alone
                     THEN [valid |-> TRUE, from |-> c.before.currentState,
                           to |-> c.obj, before |-> c.before]
                     ELSE @],
       "true", "done")

\* `if (transition) await this._transitionIn()` and what follows
SMTransitionIn(s, c) ==
  IF c.transition THEN Step(Suspended(s, c, "in"), "pending", "in")
                  ELSE SMReturnTrue(s, c)

\* `const newState = new StateClass(data); this.currentState = newState;
\*  await this.currentState.enter(data)` up to the await; throws is whether
\* the constructor throws
SMConstruct(s, c, throws) ==
  IF throws
    THEN SMCatch(s, c, "constructor")
    ELSE LET id == Len(s.objects) + 1
             c1 == [c EXCEPT !.obj = id]
         IN  Step([s EXCEPT !.objects = Append(@, NewStateObject),
                            !.currentState = id,
                            !.calls = (@ \ {c}) \cup {[c1 EXCEPT !.pc = "enter"]}],
                  "pending", "enter")

\* `if (transition) await this._transitionOut();
\*  if (this.currentState.exit) await this.currentState.exit()` from its
\* start, for a currentState that was truthy
SMLeave(s, c) ==
  IF c.transition
    THEN Step(Suspended(s, c, "out"), "pending", "out")
    ELSE Step(Suspended([s EXCEPT !.objects = HookExit(@, s.currentState)],
                        c, "exit"),
              "pending", "exit")

\* after `await this._transitionOut()`: this.currentState.exit is read, a
\* TypeError when currentState is null or undefined by now
SMAfterOut(s, c) ==
  IF Truthy(s.currentState)
    THEN Step(Suspended([s EXCEPT !.objects = HookExit(@, s.currentState)],
                        c, "exit"),
              "pending", "exit")
    ELSE SMCatch(s, c, "typeError")

\* a popState that restores the state without calling resume()
SMRestoreNoResume(s, c) ==
  LET n    == Len(s.stateStack)
      top  == IF n = 0 THEN UNDEFINED ELSE s.stateStack[n]
      s1   == [s EXCEPT !.currentState = top,
                        !.stateStack = IF n = 0 THEN << >>
                                       ELSE SubSeq(@, 1, n - 1)]
  IN  SMTransitionIn(s1, c)

\* popState after the exit: `this.currentState = this.stateStack.pop()`,
\* resume(), the transition in
SMRestore(s, c) ==
  LET n    == Len(s.stateStack)
      top  == IF n = 0 THEN UNDEFINED ELSE s.stateStack[n]
      s1   == [s EXCEPT !.currentState = top,
                        !.stateStack = IF n = 0 THEN << >>
                                       ELSE SubSeq(@, 1, n - 1),
                        !.objects = HookResume(@, top)]
  IN  SMTransitionIn(s1, c)

\* StateManager.changeState(stateName, data, transition) up to its first
\* await or its return
SMChangeStateStart(s, c, throws) ==
  IF s.isTransitioning THEN Step(s, "false", "busy")
  ELSE IF c.name \notin s.states THEN Step(s, "false", "notFound")
  ELSE LET s1 == [s EXCEPT !.isTransitioning = TRUE,
                           !.started = @ + 1,
                           !.pushed = [valid |-> FALSE]]
       IN  IF Truthy(s.currentState)
             THEN SMLeave([s1 EXCEPT !.previousState = s.currentState], c)
             ELSE SMConstruct(s1, c, throws)

\* StateManager.pushState(stateName, data, transition) up to its first await
\* or its return
SMPushStateStart(s, c, throws) ==
  IF s.isTransitioning THEN Step(s, "false", "busy")
  ELSE IF c.name \notin s.states THEN Step(s, "false", "notFound")
  ELSE LET cur == s.currentState
           s1  == [s EXCEPT !.isTransitioning = TRUE,
                            !.started = @ + 1,
                            !.pushed = [valid |-> FALSE],
                            !.objects = HookPause(@, cur),
                            !.stateStack =
                              IF Truthy(cur) THEN Append(@, cur) ELSE @]
       IN  SMConstruct(s1, c, throws)

\* a popState without the test for an empty stack
SMPopStateUnguarded(s, c) ==
  IF s.isTransitioning THEN Step(s, "false", "busy")
  ELSE LET s1 == [s EXCEPT !.isTransitioning = TRUE, !.started = @ + 1]
       IN  IF Truthy(s.currentState) THEN SMLeave(s1, c)
                                     ELSE SMRestore(s1, c)

\* StateManager.popState(transition) up to its first await or its return
SMPopStateStart(s, c) ==
  IF s.isTransitioning THEN Step(s, "false", "busy")
  ELSE IF Len(s.stateStack) = 0 THEN Step(s, "false", "emptyStack")
  ELSE LET c1 == [c EXCEPT !.rt = s.pushed]
           s1 == [s EXCEPT !.isTransitioning = TRUE,
                           !.started = @ + 1,
                           !.pushed = [valid |-> FALSE]]
       IN  IF Truthy(s.currentState) THEN SMLeave(s1, c1)
                                     ELSE SMRestore(s1, c1)

\* a call suspended at `await this._transitionOut()` or
\* `await this._transitionIn()` goes on when the timer fires
SMAfterTimer(s, c) ==
  IF c.pc = "out" THEN SMAfterOut(s, c) ELSE SMReturnTrue(s, c)

\* a call suspended at `await this.currentState.exit()` or
\* `await this.currentState.enter(data)` goes on when the promise settles;
\* rejected is whether the hook failed, throws whether the constructor that
\* follows an exit throws
SMAfterHook(s, c, rejected, throws) ==
  IF rejected THEN SMCatch(s, c, c.pc)
  ELSE IF c.pc = "exit"
         THEN IF c.kind = "popState" THEN SMRestore(s, c)
                                     ELSE SMConstruct(s, c, throws)
  ELSE SMTransitionIn(
         [s EXCEPT !.objects =
                     IF Truthy(c.obj) /\ c.obj <= Len(@)
                       THEN [@ EXCEPT ![c.obj].entered = TRUE] ELSE @],
         c)

\* StateManager.destroy(); history: the calls in flight are marked
SMDestroyed(s) ==
  LET RECURSIVE ExitAll(_, _)
      ExitAll(objects, stack) ==
        IF stack = << >> THEN objects
        ELSE ExitAll(HookExit(objects, Head(stack)), Tail(stack))
  IN  [s EXCEPT !.objects = ExitAll(HookExit(@, s.currentState), s.stateStack),
                !.states = {},
                !.stateStack = << >>,
                !.currentState = NULL,
                !.previousState = NULL,
                !.isTransitioning = FALSE,
                !.pushed = [valid |-> FALSE],
                !.calls = { [c EXCEPT !.destroyed = TRUE,
                                      !.rt = [valid |-> FALSE]] : c \in @ }]

\* StateManager.update(deltaTime) / handleInput(inputType, data): is the
\* current state's hook called
SMDelivers(s) == Truthy(s.currentState) /\ ~s.isTransitioning

---------------------------------------------------------------------------
(* Game and Bird at construction                                           *)

\* new Bird(config, canvas), and Bird.reset(); timeAlive in frames of
\* FrameMs, maxHeight in 1/YScale px; totalJumps and the rendering fields are
\* left out
InitialBird ==
  [x |-> BIRD_INITIAL_X, y |-> BIRD_INITIAL_Y * YScale, velocityY |-> 0,
   currentState |-> "idle", timeAlive |-> 0,
   maxHeight |-> BIRD_INITIAL_Y * YScale]

\* no saveScore call is in flight
NoSave == [pending |-> FALSE, score |-> 0, level |-> 1]

\* Game constructor, except the pool; loadBestScore() finds no stored score
\* and loadStats() no stored statistics
GameConstructed ==
  /\ currentState = LOADING
  /\ previousState = "null"
  /\ bird = InitialBird
  /\ score = 0
  /\ bestScore = 0
  /\ currentLevel = 1
  /\ gameTime = 0
  /\ lastPipeTime = 0
  /\ deltaTime = 0
  /\ pausedTime = 0
  /\ lastFrameTime = 0
  /\ now = 0
  /\ loopStarted = FALSE
  /\ gamesPlayed = 0
  /\ regModals = 0
  /\ sm = NewStateManager
  /\ nickModal = FALSE
  /\ lbFlows = 0
  /\ totalScore = 0
  /\ saveScore = NoSave
  /\ pairsCrossed = 0

---------------------------------------------------------------------------
(* PipePool driven on its own: any sequence of calls on the public methods *)

InitPool ==
  /\ \E n \in 0..MaxInitialSize :
       /\ pool = InitialPool(n)
       /\ created = n
  /\ activeObjects = << >>
  /\ lastResult = [op |-> "new"]
  /\ GameConstructed

PAcquire(x, y, type, level) ==
  /\ Len(pool) > 0 \/ created < MaxCreated
  /\ LET r == PoolAcquire(PoolSt, created, x, y, type, level)
     IN  /\ pool' = r.pool
         /\ activeObjects' = r.activeObjects
         /\ created' = r.created
         /\ lastResult' = [op |-> "acquire", id |-> r.pipe.id,
                           args |-> <<x, y, type, level>>]
  /\ UNCHANGED gameVars

\* id = created + 1 is a pipe this pool never handed out
PRelease(id) ==
  /\ LET r == PoolRelease(PoolSt, id)
     IN  /\ pool' = r.pool
         /\ activeObjects' = r.activeObjects
         /\ lastResult' = [op |-> "release", id |-> id, ok |-> r.ok]
  /\ UNCHANGED <<created, gameVars>>

PReleaseMultiple(ids) ==
  /\ LET r == PoolReleaseMultiple(PoolSt, ids)
     IN  /\ pool' = r.pool
         /\ activeObjects' = r.activeObjects
         /\ lastResult' = [op |-> "releaseMultiple", count |-> r.count]
  /\ UNCHANGED <<created, gameVars>>

PUpdateActive(dt) ==
  /\ LET r == PoolUpdateActive(PoolSt, dt)
     IN  /\ pool' = r.pool
         /\ activeObjects' = r.activeObjects
         /\ lastResult' = [op |-> "updateActive", dt |-> dt]
  /\ UNCHANGED <<created, gameVars>>

PCheckPassed(objX) ==
  /\ LET r == PoolCheckPassed(activeObjects, objX)
     IN  /\ activeObjects' = r.activeObjects
         /\ lastResult' = [op |-> "checkPassed", objX |-> objX,
                           passedPipes |-> r.passedPipes]
  /\ UNCHANGED <<pool, created, gameVars>>

\* processScoring on the list checkPassed has just returned, or once more on
\* the list it has just been given
PProcessScoring ==
  /\ lastResult.op \in {"checkPassed", "processScoring"}
  /\ LET r == PoolProcessScoring(PoolSt, lastResult.passedPipes)
     IN  /\ pool' = r.pool
         /\ activeObjects' = r.activeObjects
         /\ lastResult' = [op |-> "processScoring", score |-> r.score,
                           passedPipes |-> lastResult.passedPipes]
  /\ UNCHANGED <<created, gameVars>>

PClear ==
  /\ LET r == PoolClear(PoolSt)
     IN  /\ pool' = r.pool
         /\ activeObjects' = r.activeObjects
         /\ lastResult' = [op |-> "clear", count |-> r.count]
  /\ UNCHANGED <<created, gameVars>>

\* the lists of pipes a caller may hand to releaseMultiple: none, or two
\* (one pipe twice included)
ReleaseLists ==
  {<< >>} \cup { <<a, b>> \in (1..(created + 1)) \X (1..(created + 1)) :
                   a <= b }

NextPool ==
  \/ \E a \in PoolAcquireArgs : PAcquire(a[1], a[2], a[3], a[4])
  \/ \E id \in 1..(created + 1) : PRelease(id)
  \/ \E ids \in ReleaseLists : PReleaseMultiple(ids)
  \/ \E dt \in PoolDtChoices : PUpdateActive(dt)
  \/ \E objX \in PoolObjXChoices : PCheckPassed(objX)
  \/ PProcessScoring
  \/ PClear

SpecPool == InitPool /\ [][NextPool]_vars

\* checkCollisions(object) with a bird-sized rectangle
PCheckCollisions(x, y) ==
  /\ LET obj == [x |-> x, y |-> y * YScale, width |-> BIRD_WIDTH,
                 height |-> BIRD_HEIGHT * YScale]
         i   == PoolCheckCollisions(activeObjects, obj)
     IN  lastResult' = [op |-> "checkCollisions", obj |-> obj,
                        id |-> IF i = 0 THEN 0 ELSE activeObjects[i].id]
  /\ UNCHANGED <<pool, activeObjects, created, gameVars>>

\* the pool as the game drives it: top and bottom halves, moved, tested
\* against the bird, scored and cleared
NextPairs ==
  \/ \E a \in PairAcquireArgs : PAcquire(a[1], a[2], a[3], a[4])
  \/ \E dt \in PoolDtChoices : PUpdateActive(dt)
  \/ \E o \in PoolObjChoices : PCheckCollisions(o[1], o[2])
  \/ \E objX \in PoolObjXChoices : PCheckPassed(objX)
  \/ PProcessScoring
  \/ PClear

SpecPairs == InitPool /\ [][NextPairs]_vars

---------------------------------------------------------------------------
(* Bird driven on its own: any sequence of jump, update and reset          *)

notBird == <<pool, activeObjects, created, currentState, previousState,
             score, bestScore, currentLevel, gameTime, lastPipeTime,
             deltaTime, pausedTime, lastFrameTime, now, loopStarted,
             gamesPlayed, regModals, nickModal, lbFlows, totalScore,
             saveScore, pairsCrossed, sm>>

InitBird ==
  /\ pool = << >>
  /\ activeObjects = << >>
  /\ created = 0
  /\ lastResult = [op |-> "new"]
  /\ GameConstructed

BJump ==
  /\ bird' = BirdJump(bird)
  /\ lastResult' = [op |-> "jump"]
  /\ UNCHANGED notBird

BUpdate(dt) ==
  /\ bird.timeAlive + dt <= MaxTimeAlive
  /\ LET r == BirdUpdate(bird, dt)
     IN  /\ bird' = r.bird
         /\ lastResult' = [op |-> "update", dt |-> dt, alive |-> r.alive]
  /\ UNCHANGED notBird

BReset ==
  /\ bird' = InitialBird
  /\ lastResult' = [op |-> "reset"]
  /\ UNCHANGED notBird

NextBird ==
  \/ BJump
  \/ \E dt \in BirdDtChoices : BUpdate(dt)
  \/ BReset

SpecBird == InitBird /\ [][NextBird]_vars

---------------------------------------------------------------------------
(* Game                                                                    *)

\* the fields changeState and its entry actions write
stateVars == <<currentState, previousState, lastFrameTime, pausedTime,
               bestScore, totalScore, saveScore, sm>>
\* the fields resetGame writes
runVars == <<bird, pool, activeObjects, score, currentLevel, gameTime,
             lastPipeTime, pairsCrossed>>

\* history: the handler that runs now, and the state it finds
Called(op) == lastResult' = [op |-> op, from |-> currentState]

\* Game.endGame(): the best score afterwards, for the run's score sc
EndGameBest(sc) == IF sc > bestScore THEN sc ELSE bestScore

\* Game.endGame(): saveScore afterwards.  registered is
\* `this.firebaseManager && this.firebaseManager.isUserPermanentlyRegistered()`;
\* when it holds saveScore(this.score, this.currentLevel, ...) is called and
\* awaited
EndGameSave(sc, registered) ==
  IF registered
    THEN [pending |-> TRUE, score |-> sc, level |-> currentLevel]
    ELSE saveScore

\* no state change; lft is this.lastFrameTime right now
StateKept(lft) ==
  /\ lastFrameTime' = lft
  /\ UNCHANGED <<currentState, previousState, pausedTime, bestScore,
                 totalScore, saveScore, sm>>

\* a changeState whose resumeGame leaves lastFrameTime alone
ChangeStateKeepsClock(newState, sc, lft, registered) ==
  IF currentState = newState
    THEN StateKept(lft)
    ELSE /\ previousState' = currentState
         /\ currentState' = newState
         /\ lastFrameTime' = lft
         /\ pausedTime' =
              IF newState = PAUSED THEN pausedTime + deltaTime ELSE pausedTime
         /\ bestScore' =
              IF newState = GAME_OVER THEN EndGameBest(sc) ELSE bestScore
         /\ totalScore' =
              IF newState = GAME_OVER THEN totalScore + sc ELSE totalScore
         /\ saveScore' =
              IF newState = GAME_OVER THEN EndGameSave(sc, registered)
                                     ELSE saveScore
         /\ UNCHANGED sm

\* a changeState whose GameOver case runs endGame's summary twice
ChangeStateEndsTwice(newState, sc, lft, registered) ==
  IF currentState = newState
    THEN StateKept(lft)
    ELSE /\ previousState' = currentState
         /\ currentState' = newState
         /\ lastFrameTime' = IF newState = PLAYING THEN now ELSE lft
         /\ pausedTime' =
              IF newState = PAUSED THEN pausedTime + deltaTime ELSE pausedTime
         /\ bestScore' =
              IF newState = GAME_OVER THEN EndGameBest(sc) ELSE bestScore
         /\ totalScore' =
              IF newState = GAME_OVER THEN totalScore + sc + sc ELSE totalScore
         /\ saveScore' =
              IF newState = GAME_OVER THEN EndGameSave(sc, registered)
                                     ELSE saveScore
         /\ UNCHANGED sm

\* Game.changeState(newState) with resumeGame / pauseGame / endGame;
\* sc is this.score and lft is this.lastFrameTime at the time of the call,
\* registered is what endGame would find
ChangeState(newState, sc, lft, registered) ==
  IF currentState = newState
    THEN StateKept(lft)
    ELSE /\ previousState' = currentState
         /\ currentState' = newState
         /\ lastFrameTime' = IF newState = PLAYING THEN now ELSE lft
         /\ pausedTime' =
              IF newState = PAUSED THEN pausedTime + deltaTime ELSE pausedTime
         /\ bestScore' =
              IF newState = GAME_OVER THEN EndGameBest(sc) ELSE bestScore
         /\ totalScore' =
              IF newState = GAME_OVER THEN totalScore + sc ELSE totalScore
         /\ saveScore' =
              IF newState = GAME_OVER THEN EndGameSave(sc, registered)
                                     ELSE saveScore
         /\ UNCHANGED sm

\* a resetGame that forgets pipePool.clear()
ResetGameKeepsPipes ==
  /\ bird' = InitialBird
  /\ score' = 0
  /\ currentLevel' = 1
  /\ gameTime' = 0
  /\ lastPipeTime' = 0
  /\ pairsCrossed' = 0
  /\ UNCHANGED <<pool, activeObjects>>

\* Game.resetGame()
ResetGame ==
  LET r == PoolClear(PoolSt)
  IN  /\ bird' = InitialBird
      /\ pool' = r.pool
      /\ activeObjects' = r.activeObjects
      /\ score' = 0
      /\ currentLevel' = 1
      /\ gameTime' = 0
      /\ lastPipeTime' = 0
      /\ pairsCrossed' = 0

\* a restart that waits for the saveScore call to settle
RestartAfterSave ==
  IF saveScore.pending
    THEN UNCHANGED <<runVars, stateVars, gamesPlayed>>
    ELSE /\ gamesPlayed < MaxGames
         /\ ResetGame
         /\ ChangeState(PLAYING, 0, lastFrameTime, FALSE)
         /\ gamesPlayed' = gamesPlayed + 1

\* Game.restart() and Game.startGame() have the same body; maxGames caps
\* stats.gamesPlayed
RestartWithin(maxGames) ==
  /\ gamesPlayed < maxGames
  /\ ResetGame
  /\ ChangeState(PLAYING, 0, lastFrameTime, FALSE)
  /\ gamesPlayed' = gamesPlayed + 1

Restart == RestartWithin(MaxGames)

\* a pause() without the state test
PauseUnguarded ==
  /\ pausedTime + deltaTime <= MaxPausedTime
  /\ ChangeState(PAUSED, score, lastFrameTime, FALSE)

\* Game.pause()
Pause ==
  IF currentState = PLAYING
    THEN /\ pausedTime + deltaTime <= MaxPausedTime
         /\ ChangeState(PAUSED, score, lastFrameTime, FALSE)
    ELSE UNCHANGED stateVars

\* Game.resume()
Resume ==
  IF currentState = PAUSED
    THEN ChangeState(PLAYING, score, lastFrameTime, FALSE)
    ELSE UNCHANGED stateVars

\* Game.isModalActive(): only the nickname overlay carries a class the
\* selectors match; the registration overlay is given an id
IsModalActive == nickModal

\* loadAssets().then(...): changeState(MENU), then start()
AssetsReady ==
  /\ ~loopStarted
  /\ Called("assetsReady")
  /\ ChangeState(MENU, score, now, FALSE)
  /\ loopStarted' = TRUE
  /\ UNCHANGED <<runVars, created, deltaTime, now, gamesPlayed, regModals,
                 nickModal, lbFlows>>

\* wall-clock time passes until the next frame callback is due
Elapse(d, limit) ==
  /\ now = lastFrameTime
  /\ now + d <= limit
  /\ Called("elapse")
  /\ now' = now + d
  /\ UNCHANGED <<pool, activeObjects, created, runVars, stateVars, deltaTime,
                 loopStarted, gamesPlayed, regModals, nickModal, lbFlows>>

\* history: bottom pipes whose right edge is left of the bird after the
\* move but was not before it
Crossing(before, dt) ==
  Cardinality({ i \in 1..Len(before) :
                  /\ IsBottom(before[i])
                  /\ ~(BIRD_INITIAL_X > before[i].x + PIPE_WIDTH)
                  /\ BIRD_INITIAL_X >
                       PipeUpdate(before[i], dt).x + PIPE_WIDTH })

\* Game.generatePipes() and Game.createPipePair(), at gameTime = time
GeneratePipes(st, n, time, randomY) ==
  IF time - lastPipeTime >= SPAWN_INTERVAL
    THEN LET top == PoolAcquire(st, n, PIPE_INITIAL_X, randomY, "top",
                                currentLevel)
         IN  PoolAcquire(top, top.created, PIPE_INITIAL_X,
                         randomY + PIPE_HEIGHT + GapSize(currentLevel),
                         "bottom", currentLevel)
    ELSE [pool |-> st.pool, activeObjects |-> st.activeObjects,
          created |-> n]

\* an updateGameplay whose level change leaves the pipes on screen as they
\* are
UpdateGameplayKeepsPipeLevel(dt, randomY, registered) ==
  LET time  == gameTime + dt
      bu    == BirdUpdate(bird, dt \div FrameMs)
      gen   == GeneratePipes(PoolSt, created, time, randomY)
      upd   == PoolUpdateActive(gen, dt \div FrameMs)
      hit   == PoolCheckCollisions(upd.activeObjects, BirdBox(bu.bird))
      chk   == PoolCheckPassed(upd.activeObjects, bu.bird.x)
      sco   == PoolProcessScoring(
                 [pool |-> upd.pool, activeObjects |-> chk.activeObjects],
                 chk.passedPipes)
      total == score + sco.score
      up    == total >= LEVEL_2_THRESHOLD /\ currentLevel = 1
  IN  /\ gameTime' = time
      /\ bird' = bu.bird
      /\ IF ~bu.alive
           THEN /\ ChangeState(GAME_OVER, score, now, registered)
                /\ UNCHANGED <<pool, activeObjects, created, score,
                               currentLevel, lastPipeTime, pairsCrossed>>
           ELSE /\ created' = gen.created
                /\ lastPipeTime' =
                     IF time - lastPipeTime >= SPAWN_INTERVAL
                       THEN time ELSE lastPipeTime
                /\ IF hit # 0
                     THEN /\ pool' = upd.pool
                          /\ activeObjects' = upd.activeObjects
                          /\ ChangeState(GAME_OVER, score, now, registered)
                          /\ UNCHANGED <<score, currentLevel, pairsCrossed>>
                     ELSE /\ pool' = sco.pool
                          /\ activeObjects' = sco.activeObjects
                          /\ score' = total
                          /\ currentLevel' = IF up THEN 2 ELSE currentLevel
                          /\ pairsCrossed' =
                               pairsCrossed
                                 + Crossing(gen.activeObjects, dt \div FrameMs)
                          /\ StateKept(now)

\* an updateGameplay that ends the run on the floor only: a pipe that the
\* bird overlaps is advanced and scored like any other
UpdateGameplayFloorOnly(dt, randomY, registered) ==
  LET time  == gameTime + dt
      bu    == BirdUpdate(bird, dt \div FrameMs)
      gen   == GeneratePipes(PoolSt, created, time, randomY)
      upd   == PoolUpdateActive(gen, dt \div FrameMs)
      chk   == PoolCheckPassed(upd.activeObjects, bu.bird.x)
      sco   == PoolProcessScoring(
                 [pool |-> upd.pool, activeObjects |-> chk.activeObjects],
                 chk.passedPipes)
      total == score + sco.score
      up    == total >= LEVEL_2_THRESHOLD /\ currentLevel = 1
  IN  /\ gameTime' = time
      /\ bird' = bu.bird
      /\ IF ~bu.alive
           THEN /\ ChangeState(GAME_OVER, score, now, registered)
                /\ UNCHANGED <<pool, activeObjects, created, score,
                               currentLevel, lastPipeTime, pairsCrossed>>
           ELSE /\ created' = gen.created
                /\ lastPipeTime' =
                     IF time - lastPipeTime >= SPAWN_INTERVAL
                       THEN time ELSE lastPipeTime
                /\ pool' = sco.pool
                /\ activeObjects' =
                     IF up THEN PoolUpdateLevel(sco.activeObjects, 2)
                           ELSE sco.activeObjects
                /\ score' = total
                /\ currentLevel' = IF up THEN 2 ELSE currentLevel
                /\ pairsCrossed' =
                     pairsCrossed
                       + Crossing(gen.activeObjects, dt \div FrameMs)
                /\ StateKept(now)

\* Game.updateGameplay(deltaTime), with checkLevelProgression / changeLevel
UpdateGameplay(dt, randomY, registered) ==
  LET time  == gameTime + dt
      bu    == BirdUpdate(bird, dt \div FrameMs)
      gen   == GeneratePipes(PoolSt, created, time, randomY)
      upd   == PoolUpdateActive(gen, dt \div FrameMs)
      hit   == PoolCheckCollisions(upd.activeObjects, BirdBox(bu.bird))
      chk   == PoolCheckPassed(upd.activeObjects, bu.bird.x)
      sco   == PoolProcessScoring(
                 [pool |-> upd.pool, activeObjects |-> chk.activeObjects],
                 chk.passedPipes)
      total == score + sco.score
      up    == total >= LEVEL_2_THRESHOLD /\ currentLevel = 1
  IN  /\ gameTime' = time
      /\ bird' = bu.bird
      /\ IF ~bu.alive
           THEN /\ ChangeState(GAME_OVER, score, now, registered)
                /\ UNCHANGED <<pool, activeObjects, created, score,
                               currentLevel, lastPipeTime, pairsCrossed>>
           ELSE /\ created' = gen.created
                /\ lastPipeTime' =
                     IF time - lastPipeTime >= SPAWN_INTERVAL
                       THEN time ELSE lastPipeTime
                /\ IF hit # 0
                     THEN /\ pool' = upd.pool
                          /\ activeObjects' = upd.activeObjects
                          /\ ChangeState(GAME_OVER, score, now, registered)
                          /\ UNCHANGED <<score, currentLevel, pairsCrossed>>
                     ELSE /\ pool' = sco.pool
                          /\ activeObjects' =
                               IF up THEN PoolUpdateLevel(sco.activeObjects, 2)
                                     ELSE sco.activeObjects
                          /\ score' = total
                          /\ currentLevel' = IF up THEN 2 ELSE currentLevel
                          /\ pairsCrossed' =
                               pairsCrossed
                                 + Crossing(gen.activeObjects, dt \div FrameMs)
                          /\ StateKept(now)

\* an update() whose Paused case falls through to the gameplay update
UpdateWhilePaused(dt, registered) ==
  IF currentState \in {PLAYING, PAUSED}
    THEN \E randomY \in RandomYChoices :
           UpdateGameplay(dt, randomY, registered)
    ELSE /\ StateKept(now)
         /\ UNCHANGED <<runVars, created>>

\* an update() that keeps running the gameplay update after the run has ended
UpdateInGameOver(dt, registered) ==
  IF currentState \in {PLAYING, GAME_OVER}
    THEN \E randomY \in RandomYChoices :
           UpdateGameplay(dt, randomY, registered)
    ELSE /\ StateKept(now)
         /\ UNCHANGED <<runVars, created>>

\* an update() that lets the game clock run in every state
UpdateCountsIdleTime(dt, registered) ==
  IF currentState = PLAYING
    THEN \E randomY \in RandomYChoices :
           UpdateGameplay(dt, randomY, registered)
    ELSE /\ StateKept(now)
         /\ gameTime' = gameTime + dt
         /\ UNCHANGED <<bird, pool, activeObjects, score, currentLevel,
                        lastPipeTime, pairsCrossed, created>>

\* Game.update(deltaTime)
Update(dt, registered) ==
  IF currentState = PLAYING
    THEN \E randomY \in RandomYChoices :
           UpdateGameplay(dt, randomY, registered)
    ELSE /\ StateKept(now)
         /\ UNCHANGED <<runVars, created>>

\* one frame callback of Game.start()'s gameLoop, at currentTime = now:
\* deltaTime and lastFrameTime, then update(); registered is what an endGame
\* in this frame finds
Frame(registered) ==
  /\ loopStarted
  /\ now > lastFrameTime
  /\ Called("frame")
  /\ deltaTime' = now - lastFrameTime
  /\ Update(now - lastFrameTime, registered)
  /\ UNCHANGED <<now, loopStarted, gamesPlayed, regModals, nickModal,
                 lbFlows>>

\* one frame callback of gameLoop whose render() throws: an active pipe taken
\* from the free list has had its image reloaded by Pipe.reset -> loadImage
\* while imageLoaded is still true from the first load; when the reload fails
\* the image is complete and broken, and Pipe.render's drawImage raises.
\* update() has run by then; gameLoop has no try/catch, so the statement
\* after render(), requestAnimationFrame(gameLoop), is not reached
RenderThrows(registered) ==
  /\ loopStarted
  /\ now > lastFrameTime
  /\ Called("renderThrows")
  /\ deltaTime' = now - lastFrameTime
  /\ Update(now - lastFrameTime, registered)
  /\ activeObjects' # << >>
  /\ loopStarted' = FALSE
  /\ UNCHANGED <<now, gamesPlayed, regModals, nickModal, lbFlows>>

\* a handleJumpInput without the switch on the state: it always starts a run
HandleJumpInputNoDispatch(user) ==
  /\ Restart
  /\ UNCHANGED <<created, regModals, lbFlows>>

\* Game.handleJumpInput(); user is what firebaseManager reports in GameOver
HandleJumpInput(user) ==
  CASE currentState = MENU ->
         /\ Restart
         /\ UNCHANGED <<created, regModals, lbFlows>>
    [] currentState = PLAYING ->
         /\ bird' = BirdJump(bird)
         /\ UNCHANGED <<pool, activeObjects, created, score, currentLevel,
                        gameTime, lastPipeTime, pairsCrossed, stateVars,
                        gamesPlayed, regModals, lbFlows>>
    [] currentState = GAME_OVER ->
         CASE user = "permanent" ->
                /\ lbFlows < MaxFlows
                /\ lbFlows' = lbFlows + 1
                /\ UNCHANGED <<runVars, created, stateVars, gamesPlayed,
                               regModals>>
           [] user = "anonymous" ->
                /\ regModals < MaxModals
                /\ regModals' = regModals + 1
                /\ UNCHANGED <<runVars, created, stateVars, gamesPlayed,
                               lbFlows>>
           [] OTHER ->
                /\ Restart
                /\ UNCHANGED <<created, regModals, lbFlows>>
    [] currentState = PAUSED ->
         /\ Resume
         /\ UNCHANGED <<runVars, created, gamesPlayed, regModals, lbFlows>>
    [] OTHER ->
         UNCHANGED <<runVars, created, stateVars, gamesPlayed, regModals,
                     lbFlows>>

UserKinds == {"permanent", "anonymous", "offline"}

\* keydown Space / ArrowUp / KeyX, click, touchstart
JumpInput(user) ==
  /\ ~IsModalActive
  /\ Called("jump")
  /\ HandleJumpInput(user)
  /\ UNCHANGED <<deltaTime, now, loopStarted, nickModal>>

\* keydown KeyP / Escape
PauseKey ==
  /\ ~IsModalActive
  /\ Called("pauseKey")
  /\ IF currentState = PLAYING THEN Pause
     ELSE IF currentState = PAUSED THEN Resume
     ELSE UNCHANGED stateVars
  /\ UNCHANGED <<runVars, created, deltaTime, now, loopStarted, gamesPlayed,
                 regModals, nickModal, lbFlows>>

\* keydown KeyR
RestartKey ==
  /\ ~IsModalActive
  /\ Called("restartKey")
  /\ Restart
  /\ UNCHANGED <<created, deltaTime, now, loopStarted, regModals, nickModal,
                 lbFlows>>

\* visibilitychange with document.hidden
TabHidden ==
  /\ Called("tabHidden")
  /\ IF currentState = PLAYING THEN Pause ELSE UNCHANGED stateVars
  /\ UNCHANGED <<runVars, created, deltaTime, now, loopStarted, gamesPlayed,
                 regModals, nickModal, lbFlows>>

\* window.FlappyBirdGame.pause()
ApiPause ==
  /\ Called("pause")
  /\ Pause
  /\ UNCHANGED <<runVars, created, deltaTime, now, loopStarted, gamesPlayed,
                 regModals, nickModal, lbFlows>>

\* window.FlappyBirdGame.resume()
ApiResume ==
  /\ Called("resume")
  /\ Resume
  /\ UNCHANGED <<runVars, created, deltaTime, now, loopStarted, gamesPlayed,
                 regModals, nickModal, lbFlows>>

\* window.FlappyBirdGame.restart()
ApiRestart ==
  /\ Called("restart")
  /\ Restart
  /\ UNCHANGED <<created, deltaTime, now, loopStarted, regModals, nickModal,
                 lbFlows>>

\* Game.closeModal(modal): a button or timer of the registration modal
CloseModalWithin(maxGames) ==
  /\ regModals > 0
  /\ Called("closeModal")
  /\ regModals' = regModals - 1
  /\ RestartWithin(maxGames)
  /\ UNCHANGED <<created, deltaTime, now, loopStarted, nickModal, lbFlows>>

CloseModal == CloseModalWithin(MaxGames)

\* the saveScore promise endGame awaits settles: resolved true, resolved
\* false, or rejected; endGame only logs the outcome
SaveOutcomes == {"saved", "refused", "rejected"}

SaveScoreSettles(outcome) ==
  /\ saveScore.pending
  /\ lastResult' = [op |-> "saveScoreSettles", from |-> currentState,
                    outcome |-> outcome]
  /\ saveScore' = NoSave
  /\ UNCHANGED <<pool, activeObjects, created, runVars, currentState,
                 previousState, lastFrameTime, pausedTime, bestScore,
                 totalScore, deltaTime, now, loopStarted, gamesPlayed,
                 regModals, nickModal, lbFlows, sm>>

\* Game.showLeaderboard(): needsNicknameSetup resolved true, modal shown
NicknameOpen ==
  /\ lbFlows > 0
  /\ ~nickModal
  /\ Called("nicknameOpen")
  /\ nickModal' = TRUE
  /\ UNCHANGED <<pool, activeObjects, created, runVars, stateVars, deltaTime,
                 now, loopStarted, gamesPlayed, regModals, lbFlows>>

\* the nickname modal resolves: showLeaderboard goes on to its timer
NicknameConfirm ==
  /\ nickModal
  /\ Called("nicknameConfirm")
  /\ nickModal' = FALSE
  /\ UNCHANGED <<pool, activeObjects, created, runVars, stateVars, deltaTime,
                 now, loopStarted, gamesPlayed, regModals, lbFlows>>

\* Game.showLeaderboard() reaches a restart(): the 8 s timer, the catch
\* block, or the nickname modal cancelled
LeaderboardRestartWithin(cancelled, maxGames) ==
  /\ lbFlows > 0
  /\ nickModal = cancelled
  /\ Called("leaderboardRestart")
  /\ nickModal' = FALSE
  /\ lbFlows' = lbFlows - 1
  /\ RestartWithin(maxGames)
  /\ UNCHANGED <<created, deltaTime, now, loopStarted, regModals>>

LeaderboardRestart(cancelled) == LeaderboardRestartWithin(cancelled, MaxGames)

Init ==
  /\ pool = InitialPool(DefaultInitialSize)
  /\ activeObjects = << >>
  /\ created = DefaultInitialSize
  /\ lastResult = [op |-> "new"]
  /\ GameConstructed

Next ==
  \/ AssetsReady
  \/ \E d \in DtChoices : Elapse(d, MaxNow)
  \/ Frame(FALSE)
  \/ \E user \in UserKinds : JumpInput(user)
  \/ PauseKey
  \/ RestartKey
  \/ TabHidden
  \/ ApiPause
  \/ ApiResume
  \/ ApiRestart
  \/ CloseModal
  \/ NicknameOpen
  \/ NicknameConfirm
  \/ \E cancelled \in BOOLEAN : LeaderboardRestart(cancelled)

Spec == Init /\ [][Next]_vars

\* one player flying: the assets load, then frames and jump inputs only
NextRun ==
  \/ AssetsReady
  \/ \E d \in DtChoices : Elapse(d, MaxRunNow)
  \/ Frame(FALSE)
  \/ JumpInput("permanent")

SpecRun == Init /\ [][NextRun]_vars

\* the ends of runs: a player without a leaderboard session (a jump in
\* GameOver restarts), the restart key, frames whose endGame may or may not
\* find a registered user, and the saveScore promise settling at any time
NextEnd ==
  \/ AssetsReady
  \/ \E d \in DtChoices : Elapse(d, MaxNow)
  \/ \E registered \in BOOLEAN : Frame(registered)
  \/ JumpInput("offline")
  \/ RestartKey
  \/ \E outcome \in SaveOutcomes : SaveScoreSettles(outcome)

SpecEnd == Init /\ [][NextEnd]_vars

\* runs long enough to score, with the restart key: steady frames, one
\* registered player flying, whose saveScore calls succeed
NextBest ==
  \/ AssetsReady
  \/ Elapse(SteadyDt, MaxBestNow)
  \/ Frame(TRUE)
  \/ JumpInput("permanent")
  \/ RestartKey
  \/ SaveScoreSettles("saved")

SpecBest == Init /\ [][NextBest]_vars

\* runs in which a frame's render() can throw
NextThrow ==
  \/ currentState = LOADING /\ AssetsReady
  \/ \E d \in DtChoices : Elapse(d, MaxNow)
  \/ Frame(FALSE)
  \/ RenderThrows(FALSE)
  \/ JumpInput("offline")
  \/ RestartKey

SpecThrow == Init /\ [][NextThrow]_vars

\* one long run with steady frames, followed from its start to its end: the
\* clock is advanced only while the game is Playing, and the restart key is
\* pressed only in the second level
NextLevel ==
  \/ AssetsReady
  \/ currentState = PLAYING /\ Elapse(SteadyDt, MaxLevelNow)
  \/ Frame(FALSE)
  \/ JumpInput("permanent")
  \/ currentLevel = 2 /\ RestartKey

SpecLevel == Init /\ [][NextLevel]_vars

\* runs with the restarts that showLeaderboard and the registration modal
\* defer: a deferred restart may still come after the player's own restarts
NextDeferred ==
  \/ AssetsReady
  \/ \E d \in DtChoices : Elapse(d, MaxNow)
  \/ Frame(FALSE)
  \/ \E user \in {"permanent", "anonymous"} : JumpInput(user)
  \/ RestartKey
  \/ CloseModalWithin(MaxGames + 1)
  \/ LeaderboardRestartWithin(FALSE, MaxGames + 1)

SpecDeferred == Init /\ [][NextDeferred]_vars

\* a StateManager driven through its public methods; the game stands still
notSM == <<pool, activeObjects, created, currentState, previousState, bird,
           score, bestScore, currentLevel, gameTime, lastPipeTime, deltaTime,
           pausedTime, lastFrameTime, now, loopStarted, gamesPlayed,
           regModals, nickModal, lbFlows, totalScore, saveScore,
           pairsCrossed>>

\* one step of call c with result r; history: the step is recorded
SMStep(c, r) ==
  /\ r.sm.started <= MaxSMCalls
  /\ sm' = r.sm
  /\ lastResult' = [op |-> c.kind, name |-> c.name, ret |-> r.ret,
                    cause |-> r.cause, before |-> c.before, obj |-> c.obj,
                    rt |-> c.rt, destroyed |-> c.destroyed, pc |-> c.pc]
  /\ UNCHANGED notSM

RegisterState(name) ==
  /\ name \notin sm.states
  /\ sm' = [sm EXCEPT !.states = @ \cup {name}]
  /\ lastResult' = [op |-> "registerState", name |-> name]
  /\ UNCHANGED notSM

SMChangeState(name, transition, throws) ==
  LET c == NewCall(sm, "changeState", name, transition)
  IN  SMStep(c, SMChangeStateStart(sm, c, throws))

SMPushState(name, transition, throws) ==
  LET c == NewCall(sm, "pushState", name, transition)
  IN  SMStep(c, SMPushStateStart(sm, c, throws))

SMPopState(transition) ==
  LET c == NewCall(sm, "popState", "", transition)
  IN  SMStep(c, SMPopStateStart(sm, c))

\* setTimeout(resolve, transitionDuration / 2) fires
SMTimerFires(c) ==
  /\ c \in sm.calls
  /\ c.pc \in {"out", "in"}
  /\ SMStep(c, SMAfterTimer(sm, c))

\* the promise of an exit() or an enter() settles
SMHookSettles(c, rejected, throws) ==
  /\ c \in sm.calls
  /\ c.pc \in {"exit", "enter"}
  /\ SMStep(c, SMAfterHook(sm, c, rejected, throws))

SMUpdate ==
  /\ lastResult' = [op |-> "update", delivered |-> SMDelivers(sm),
                    to |-> sm.currentState]
  /\ UNCHANGED sm
  /\ UNCHANGED notSM

SMHandleInput(handled) ==
  /\ lastResult' = [op |-> "handleInput", delivered |-> SMDelivers(sm),
                    to |-> sm.currentState,
                    ret |-> SMDelivers(sm) /\ handled]
  /\ UNCHANGED sm
  /\ UNCHANGED notSM

SMDestroy ==
  /\ sm' = SMDestroyed(sm)
  /\ lastResult' = [op |-> "destroy"]
  /\ UNCHANGED notSM

\* a call in flight goes on
SMSettles ==
  \E c \in sm.calls :
    \/ SMTimerFires(c)
    \/ \E rejected \in BOOLEAN, throws \in BOOLEAN :
         SMHookSettles(c, rejected, throws)

NextSM ==
  \/ \E name \in StateNames : RegisterState(name)
  \/ \E name \in RequestNames, transition \in BOOLEAN,
        throws \in BOOLEAN : SMChangeState(name, transition, throws)
  \/ \E name \in RequestNames, transition \in BOOLEAN,
        throws \in BOOLEAN : SMPushState(name, transition, throws)
  \/ \E transition \in BOOLEAN : SMPopState(transition)
  \/ SMSettles
  \/ SMUpdate
  \/ \E handled \in BOOLEAN : SMHandleInput(handled)
  \/ SMDestroy

SpecSM == Init /\ [][NextSM]_vars

\* the same, where the timers fire and the promises of the hooks settle
SpecSMFair == Init /\ [][NextSM]_vars /\ WF_vars(SMSettles)

---------------------------------------------------------------------------
(* Properties                                                              *)

\* the pipes of both lists, free list first
AllPipes == pool \o activeObjects

\* C1: pool membership.  After any sequence of acquire, release,
\* releaseMultiple, updateActive and clear, every Pipe the pool has created
\* is in exactly one of the free list and the active list, and in it once.
C1_PoolMembership ==
  /\ Len(AllPipes) = created
  /\ \A id \in 1..created :
       Cardinality({ i \in 1..Len(AllPipes) : AllPipes[i].id = id }) = 1

\* C1 witness: updateActive has just sent pipes back, and both lists are
\* populated with every pipe the bound allows
C1_Witness ==
  /\ lastResult.op = "updateActive"
  /\ created = MaxCreated
  /\ Len(pool) = 2
  /\ Len(activeObjects) = 1

\* C8: acquire never fails.  It takes a pipe from the free list when there is
\* one, and allocates one otherwise; the pipe it returns is in the active
\* list (and not in the free list) with the requested x, y, type and level and
\* with passed = scored = false.
C8_AcquireReturnsFreshActive ==
  [][lastResult'.op = "acquire" =>
       LET id == lastResult'.id
           i  == IndexOf(activeObjects', id)
       IN  /\ IF pool # << >>
                THEN /\ created' = created
                     /\ id = pool[Len(pool)].id
                     /\ pool' = SubSeq(pool, 1, Len(pool) - 1)
                ELSE /\ created' = created + 1
                     /\ id = created + 1
                     /\ pool' = pool
           /\ i = Len(activeObjects) + 1
           /\ SubSeq(activeObjects', 1, Len(activeObjects)) = activeObjects
           /\ IndexOf(pool', id) = 0
           /\ <<activeObjects'[i].x, activeObjects'[i].y,
                activeObjects'[i].type, activeObjects'[i].level>>
                = lastResult'.args
           /\ ~activeObjects'[i].passed
           /\ ~activeObjects'[i].scored]_vars

\* C8 witness: acquire has just reused a pooled pipe (an older one than the
\* newest allocated) next to another active pipe
C8_Witness ==
  /\ lastResult.op = "acquire"
  /\ lastResult.id < created
  /\ Len(activeObjects) = 2

\* C9: releasing a pipe that is not in the active list (already released, or
\* never acquired from this pool) returns false and leaves both lists as they
\* were, so a double release never puts a pipe in the free list twice.
C9_ReleaseOfInactive ==
  [][lastResult'.op = "release"
       /\ IndexOf(activeObjects, lastResult'.id) = 0 =>
       /\ ~lastResult'.ok
       /\ pool' = pool
       /\ activeObjects' = activeObjects
       /\ \A i, j \in 1..Len(pool') :
            pool'[i].id = pool'[j].id => i = j]_vars

\* C9 witness: a pipe lying in the free list has just been released again
\* while other pipes are active
C9_Witness ==
  /\ lastResult.op = "release"
  /\ ~lastResult.ok
  /\ IndexOf(pool, lastResult.id) # 0
  /\ Len(activeObjects) = 2

\* C10: round trip.  release(p) of an active pipe p returns true, takes p out
\* of the active list, puts it in the free list with passed = scored = false,
\* and leaves the other active pipes and their order as they were.
C10_ReleaseRoundTrip ==
  [][lastResult'.op = "release"
       /\ IndexOf(activeObjects, lastResult'.id) # 0 =>
       LET id == lastResult'.id
       IN  /\ lastResult'.ok
           /\ activeObjects' = SelectSeq(activeObjects, LAMBDA q : q.id # id)
           /\ Len(pool') = Len(pool) + 1
           /\ SubSeq(pool', 1, Len(pool)) = pool
           /\ pool'[Len(pool')].id = id
           /\ ~pool'[Len(pool')].passed
           /\ ~pool'[Len(pool')].scored]_vars

\* C10 witness: the first of three active pipes has just been released, and
\* the two behind it are still there in their order
C10_Witness ==
  /\ lastResult.op = "release"
  /\ lastResult.ok
  /\ lastResult.id = 1
  /\ Ids(activeObjects) = <<2, 3>>
  /\ Ids(pool) = <<1>>

\* C2: state-gated updates.  A frame callback that finds the game in Loading,
\* Menu, Paused or GameOver leaves the bird, the active pipes and their
\* positions, the free list, score, currentLevel and gameTime as they were.
C2_StateGatedUpdates ==
  [][lastResult'.op = "frame" /\ currentState # PLAYING =>
       UNCHANGED <<bird, pool, activeObjects, score, currentLevel, gameTime,
                   lastPipeTime, currentState>>]_vars

\* C2 witness: a frame has just run in Paused, with pipes on the screen and
\* the bird in motion
C2_Witness ==
  /\ lastResult.op = "frame"
  /\ lastResult.from = PAUSED
  /\ currentState = PAUSED
  /\ activeObjects # << >>
  /\ bird.velocityY # 0

\* the transitions of the state table
TableTransitions ==
  { <<LOADING, MENU>>, <<MENU, PLAYING>>, <<PLAYING, PAUSED>>,
    <<PAUSED, PLAYING>>, <<PLAYING, GAME_OVER>>, <<GAME_OVER, PLAYING>> }

\* the calls that are a restart request
RestartRequests == {"restartKey", "restart"}

\* C3: every change of currentState is a transition of the table, and a
\* restart request (key R, FlappyBirdGame.restart()) in a state other than
\* GameOver changes nothing.
C3_OnlyTableTransitions ==
  [][/\ currentState' # currentState =>
          <<currentState, currentState'>> \in TableTransitions
     /\ lastResult'.op \in RestartRequests /\ currentState # GAME_OVER =>
          UNCHANGED <<currentState, previousState, lastFrameTime, pausedTime,
                      bestScore, bird, pool, activeObjects, score,
                      currentLevel, gameTime, lastPipeTime,
                      gamesPlayed>>]_vars

\* the fields of a run that a reset puts back
RunIsReset ==
  /\ bird'.x = BIRD_INITIAL_X
  /\ bird'.y = BIRD_INITIAL_Y * YScale
  /\ bird'.velocityY = 0
  /\ bird'.currentState = "idle"
  /\ activeObjects' = << >>
  /\ score' = 0
  /\ currentLevel' = 1
  /\ gameTime' = 0
  /\ lastPipeTime' = 0

\* C4: the jump input is dispatched by state.  Menu: the run is reset and the
\* game enters Playing.  Playing: only the bird's jump impulse.  Paused: only
\* the resume to Playing, nothing reset.  GameOver: a restart, or the
\* leaderboard / registration flow opens.  Loading: no effect.
C4_JumpDispatch ==
  [][lastResult'.op = "jump" =>
       CASE currentState = MENU ->
              currentState' = PLAYING /\ RunIsReset
         [] currentState = PLAYING ->
              /\ bird' = [bird EXCEPT !.velocityY = JUMP_VELOCITY,
                                      !.currentState = "flying"]
              /\ UNCHANGED <<currentState, previousState, lastFrameTime,
                             pausedTime, pool, activeObjects, score,
                             currentLevel, gameTime, lastPipeTime,
                             gamesPlayed>>
         [] currentState = PAUSED ->
              /\ currentState' = PLAYING
              /\ UNCHANGED <<bird, pool, activeObjects, score, currentLevel,
                             gameTime, lastPipeTime, gamesPlayed>>
         [] currentState = GAME_OVER ->
              \/ currentState' = PLAYING /\ RunIsReset
              \/ /\ lbFlows' + regModals' = lbFlows + regModals + 1
                 /\ UNCHANGED <<currentState, bird, pool, activeObjects,
                                score, currentLevel, gameTime, lastPipeTime,
                                gamesPlayed>>
         [] OTHER ->
              UNCHANGED <<currentState, previousState, lastFrameTime,
                          pausedTime, bestScore, bird, pool, activeObjects,
                          score, currentLevel, gameTime, lastPipeTime,
                          gamesPlayed, regModals, lbFlows>>]_vars

\* C4 witness: a jump input has just resumed a paused run that has pipes on
\* the screen
C4_Witness ==
  /\ lastResult.op = "jump"
  /\ lastResult.from = PAUSED
  /\ currentState = PLAYING
  /\ gameTime > 0
  /\ activeObjects # << >>

\* the calls that end in Game.restart()
RestartCalls ==
  {"restartKey", "restart", "closeModal", "leaderboardRestart"}

\* C5: an invalid request is a no-op.  pause() outside Playing and resume()
\* outside Paused leave currentState, previousState, lastFrameTime, pausedTime
\* and the gameplay fields as they were; changeState(Playing) in Playing
\* (reached through restart()) runs no entry action.
C5_InvalidRequestNoOp ==
  [][/\ (\/ lastResult'.op = "pause" /\ currentState # PLAYING
         \/ lastResult'.op = "resume" /\ currentState # PAUSED)
          => UNCHANGED <<currentState, previousState, lastFrameTime,
                         pausedTime, bestScore, bird, pool, activeObjects,
                         score, currentLevel, gameTime, lastPipeTime,
                         deltaTime, gamesPlayed>>
     /\ (lastResult'.op \in RestartCalls /\ currentState = PLAYING)
          => UNCHANGED <<currentState, previousState, lastFrameTime,
                         pausedTime, bestScore>>]_vars

\* C5 witness: pause() has just been called on a game that was already
\* paused, some time after its last frame
C5_Witness ==
  /\ lastResult.op = "pause"
  /\ lastResult.from = PAUSED
  /\ currentState = PAUSED
  /\ pausedTime > 0
  /\ now > lastFrameTime

C7_OneUnitPerPair == score = POINTS_PER_PIPE * pairsCrossed

\* C11: updateActive(dt) moves every active pipe by velocityX * dt and then
\* releases exactly the pipes with x + width < 0; a pipe with x + width >= 0
\* after the move, x + width = 0 included, is still active afterwards.
C11_UpdateActiveReleasesPastEdge ==
  [][lastResult'.op = "updateActive" =>
       LET moved == [i \in 1..Len(activeObjects) |->
                       [activeObjects[i] EXCEPT
                          !.x = @ + VELOCITY_X * lastResult'.dt]]
       IN  /\ activeObjects' =
                SelectSeq(moved, LAMBDA p : p.x + PIPE_WIDTH >= 0)
           /\ Ids(pool') =
                Ids(pool)
                  \o Ids(SelectSeq(moved, LAMBDA p : p.x + PIPE_WIDTH < 0))]_vars

\* C12: collision boundary.  checkCollisions(object) returns null exactly
\* when no active pipe's rectangle overlaps the object's rectangle with a
\* positive width and height, and otherwise the first such pipe; a pipe that
\* only shares an edge with the object (bird.x + bird.width = pipe.x
\* included) is not a collision.
C12_CollisionIffOverlap ==
  [][lastResult'.op = "checkCollisions" =>
       LET obj  == lastResult'.obj
           W(p) == Min(obj.x + obj.width, p.x + PIPE_WIDTH) - Max(obj.x, p.x)
           H(p) == Min(obj.y + obj.height, YScale * (p.y + PIPE_HEIGHT))
                     - Max(obj.y, YScale * p.y)
           hits == { i \in 1..Len(activeObjects) :
                       W(activeObjects[i]) > 0 /\ H(activeObjects[i]) > 0 }
       IN  /\ lastResult'.id = 0 <=> hits = {}
           /\ hits # {} =>
                \E i \in hits :
                  /\ lastResult'.id = activeObjects[i].id
                  /\ \A j \in hits : i <= j
           /\ \A i \in 1..Len(activeObjects) :
                obj.x + obj.width = activeObjects[i].x
                  => lastResult'.id # activeObjects[i].id
           /\ UNCHANGED <<pool, activeObjects>>]_vars

\* C12 witness: checkCollisions has just returned null for a rectangle whose
\* right edge lies on an active pipe's left edge while it is level with the
\* pipe
C12_Witness ==
  /\ lastResult.op = "checkCollisions"
  /\ lastResult.id = 0
  /\ \E i \in 1..Len(activeObjects) :
       /\ lastResult.obj.x + lastResult.obj.width = activeObjects[i].x
       /\ lastResult.obj.y < YScale * (activeObjects[i].y + PIPE_HEIGHT)
       /\ lastResult.obj.y + lastResult.obj.height > YScale * activeObjects[i].y

\* C13: checkPassed(bird) returns exactly the active pipes that are not yet
\* passed and lie wholly to the left of the bird (bird.x > pipe.x + width),
\* in list order, and marks each of them passed.  A pipe that stays active
\* keeps its passed mark, so it is returned at most once between acquire and
\* release, and a second call right after the first returns the empty list.
C13_CheckPassedOnce ==
  [][/\ lastResult'.op = "checkPassed" =>
          LET objX == lastResult'.objX
              due(p) == ~p.passed /\ objX > p.x + PIPE_WIDTH
          IN  /\ lastResult'.passedPipes = Ids(SelectSeq(activeObjects, due))
              /\ Ids(activeObjects') = Ids(activeObjects)
              /\ \A i \in 1..Len(activeObjects) :
                   /\ activeObjects'[i].passed
                        = (activeObjects[i].passed \/ due(activeObjects[i]))
                   /\ activeObjects'[i]
                        = [activeObjects[i] EXCEPT
                             !.passed = activeObjects'[i].passed]
              /\ pool' = pool
              /\ lastResult.op = "checkPassed"
                   => lastResult'.passedPipes = << >>
     /\ \A i \in 1..Len(activeObjects), j \in 1..Len(activeObjects') :
          activeObjects[i].id = activeObjects'[j].id
            /\ activeObjects[i].passed
            /\ lastResult'.op # "acquire"
            => activeObjects'[j].passed]_vars

\* C13 witness: checkPassed has just returned the empty list although an
\* active pipe lies to the left of the bird, because that pipe was reported
\* by an earlier call; another active pipe is still ahead of the bird
C13_Witness ==
  /\ lastResult.op = "checkPassed"
  /\ lastResult.passedPipes = << >>
  /\ \E i \in 1..Len(activeObjects) :
       /\ activeObjects[i].passed
       /\ lastResult.objX > activeObjects[i].x + PIPE_WIDTH
  /\ \E i \in 1..Len(activeObjects) : ~activeObjects[i].passed

C15_ClearReleasesAll ==
  [][lastResult'.op = "clear" =>
       /\ activeObjects' = << >>
       /\ lastResult'.count = Len(activeObjects)
       /\ pool' = pool \o [i \in 1..Len(activeObjects) |->
                             [activeObjects[i] EXCEPT !.passed = FALSE,
                                                      !.scored = FALSE]]]_vars

\* C15 witness: clear has just sent two pipes, one of them already behind
\* the bird, to a free list that already held one
C15_Witness ==
  /\ lastResult.op = "clear"
  /\ lastResult.count = 2
  /\ Len(pool) = 3
  /\ activeObjects = << >>
  /\ \E i \in 2..3 : pool[i].x + PIPE_WIDTH < BIRD_INITIAL_X

\* C16: gravity clamp.  After every Bird.update(dt), in any interleaving
\* with jump(), velocityY is at most MAX_FALL_SPEED, and the clamp comes
\* before the move: the bird never falls by more than MAX_FALL_SPEED * dt in
\* one update.
C16_GravityClamp ==
  [][/\ bird'.velocityY <= MAX_FALL_SPEED
     /\ lastResult'.op = "update" =>
          bird'.y - bird.y <= MAX_FALL_SPEED * lastResult'.dt]_vars

\* C16 witness: an update has just cut the velocity of a bird that had jumped
\* and risen before (from -6 px/frame no sum of the gravity steps is exactly
\* MAX_FALL_SPEED)
C16_Witness ==
  /\ lastResult.op = "update"
  /\ lastResult.alive
  /\ bird.velocityY = MAX_FALL_SPEED
  /\ bird.maxHeight < BIRD_INITIAL_Y * YScale

\* C17: Bird.update(dt) returns false when, after the position update, the
\* bird's bottom edge is on or below the floor (y + height >= canvas
\* height), the bottom edge lying exactly on the floor included, and true
\* otherwise.
C17_FloorIsDeath ==
  [][lastResult'.op = "update" =>
       LET v == Min(bird.velocityY + GRAVITY * lastResult'.dt, MAX_FALL_SPEED)
           y == Max(bird.y + v * lastResult'.dt, 0)
       IN  lastResult'.alive
             = ~(y + BIRD_HEIGHT * YScale >= BOARD_HEIGHT * YScale)]_vars

C19_GameTimeOnlyWhilePlaying ==
  [][/\ lastResult'.op = "frame" =>
          gameTime' = IF currentState = PLAYING
                        THEN gameTime + (now - lastFrameTime)
                        ELSE gameTime
     /\ lastResult'.op # "frame" => gameTime' \in {gameTime, 0}]_vars

\* C19 witness: a Playing frame has just run in a run that was paused and
\* resumed, and less game time than wall-clock time has been counted
C19_Witness ==
  /\ lastResult.op = "frame"
  /\ lastResult.from = PLAYING
  /\ previousState = PAUSED
  /\ pausedTime > 0
  /\ gameTime > deltaTime
  /\ gameTime < now

\* C20: resume resynchronises the clock.  Every entry into Playing (resume,
\* start from Menu, restart from GameOver) sets lastFrameTime to the current
\* time; lastFrameTime is otherwise only moved to the current time by a
\* frame, and a frame's deltaTime is the time since lastFrameTime, so the
\* first Playing frame's dt covers only the time since the entry.
C20_EntryResyncsClock ==
  [][/\ currentState' = PLAYING /\ currentState # PLAYING =>
          lastFrameTime' = now'
     /\ lastFrameTime' \in {lastFrameTime, now'}
     /\ lastResult'.op = "frame" =>
          deltaTime' = now - lastFrameTime /\ lastFrameTime' = now]_vars

\* C20 witness: the game has just been resumed from Paused in a run that is
\* under way, and the clock reference is the current time
C20_Witness ==
  /\ lastResult.op \in {"resume", "pauseKey", "jump"}
  /\ lastResult.from = PAUSED
  /\ currentState = PLAYING
  /\ previousState = PAUSED
  /\ gameTime > 0
  /\ lastFrameTime = now

\* C21: the dt of a Playing tick is capped.  When the gap between two frame
\* callbacks is longer than the clock's shortest gap (a stalled frame), the
\* time added to gameTime and the time handed to the bird are less than the
\* raw gap.
C21_StalledDeltaCapped ==
  [][/\ lastResult'.op = "frame"
     /\ currentState = PLAYING
     /\ \E g \in DtChoices : g < now - lastFrameTime
     => /\ gameTime' - gameTime < now - lastFrameTime
        /\ bird'.timeAlive - bird.timeAlive
             < (now - lastFrameTime) \div FrameMs]_vars

\* C22: a leaderboard failure never blocks the game.  Whether endGame finds
\* no registered user or calls saveScore, and whether that call is still
\* pending, resolves true or false, or rejects: the frame loop stays
\* scheduled, the settling of the call changes nothing in the game, and a
\* restart from GameOver enters Playing with the run reset (score 0, bird at
\* its initial position, no active pipe).
C22_SaveNeverBlocks ==
  [][/\ loopStarted => loopStarted'
     /\ lastResult'.op = "saveScoreSettles" =>
          UNCHANGED <<currentState, bird, pool, activeObjects, score,
                      bestScore, currentLevel, gameTime, lastPipeTime,
                      lastFrameTime, gamesPlayed>>
     /\ lastResult'.op \in {"restartKey", "jump"} /\ currentState = GAME_OVER =>
          /\ currentState' = PLAYING
          /\ RunIsReset
          /\ bird' = InitialBird
          /\ saveScore' = saveScore]_vars

\* C22 witness: the restart key has just started a new run from GameOver
\* while the saveScore call of the run that ended is still pending
C22_Witness ==
  /\ lastResult.op = "restartKey"
  /\ lastResult.from = GAME_OVER
  /\ currentState = PLAYING
  /\ saveScore.pending
  /\ score = 0
  /\ activeObjects = << >>

\* C23: the best score is written whenever a new best is achieved.
\* bestScore never decreases, and whenever a run's score is put back to 0
\* (the run ended on the floor, on a pipe, or by a restart) bestScore is by
\* then at least the score the run had reached.
C23_BestScoreKept ==
  [][/\ bestScore' >= bestScore
     /\ score' < score => bestScore' >= score]_vars

\* C24: player death ends the run in the same tick.  When a Playing tick's
\* Bird.update reports the floor, or an active pipe overlaps the bird once the
\* pool has been advanced, the game is in GameOver when the tick returns and
\* endGame has run once: the run's score is added once to the cumulative
\* score, the best score is the larger of the two, and the only saveScore the
\* tick can have begun is the one for this run's score and level.
C24_DeathEndsRunInTick ==
  [][/\ lastResult'.op = "frame"
     /\ currentState = PLAYING
     /\ \/ ~BirdUpdate(bird, (now - lastFrameTime) \div FrameMs).alive
        \/ PoolCheckCollisions(activeObjects', BirdBox(bird')) # 0
     => /\ currentState' = GAME_OVER
        /\ totalScore' = totalScore + score
        /\ bestScore' = EndGameBest(score)
        /\ score' = score
        /\ saveScore' \in
             {saveScore,
              [pending |-> TRUE, score |-> score, level |-> currentLevel]}]_vars

\* a tick has just ended a registered player's run on a pipe: the bird is not
\* on the floor, the pipe overlaps it, and the run's saveScore has begun
C24_Witness ==
  /\ lastResult.op = "frame"
  /\ lastResult.from = PLAYING
  /\ currentState = GAME_OVER
  /\ bird.currentState # "dead"
  /\ PoolCheckCollisions(activeObjects, BirdBox(bird)) # 0
  /\ saveScore.pending

\* C26: a tick that throws does not end the session.  When the update or
\* render step of a frame callback raises, the tick leaves the gameplay as it
\* was and the frame loop is still scheduled afterwards.
C26_ThrowingTickContained ==
  [][lastResult'.op = "renderThrows"
     => /\ loopStarted'
        /\ UNCHANGED <<currentState, bird, activeObjects, score, gameTime>>]_vars

\* C27: the bird's vertical range.  After every Bird.update, however it is
\* interleaved with jumps, 0 <= bird.y <= canvas.height - bird.height; an
\* update that reports the floor leaves the bird on the floor line.
C27_BirdStaysOnScreen ==
  lastResult.op = "update" =>
    /\ 0 <= bird.y
    /\ bird.y <= FloorY
    /\ ~lastResult.alive => bird.y = FloorY

\* the top clamp has acted: 76 frames after the start the bird is at the
\* top, which only 19 jumps each followed by update(4) reach, and those climb
\* 19 * 17.6 px, more than the 320 px there are
C27_Witness ==
  /\ lastResult.op = "update"
  /\ bird.timeAlive = 76
  /\ bird.y = 0

\* C28: Dead is sticky.  Once die() has set the bird's currentState to Dead
\* it stays Dead across every later update() and jump(); only reset() changes
\* it.
C28_DeadIsSticky ==
  [][bird.currentState = "dead" /\ lastResult'.op # "reset"
     => bird'.currentState = "dead"]_vars

\* C29: the level is a function of the cumulative score.  After every tick
\* that finds the game Playing, currentLevel is 2 exactly when score has
\* reached LEVEL_2_THRESHOLD and 1 otherwise, and every active pipe carries
\* currentLevel; the level never drops except in a step that resets the run.
C29_LevelFollowsScore ==
  [][/\ lastResult'.op = "frame" /\ currentState = PLAYING =>
          /\ currentLevel' = IF score' >= LEVEL_2_THRESHOLD THEN 2 ELSE 1
          /\ \A i \in 1..Len(activeObjects') :
               activeObjects'[i].level = currentLevel'
     /\ currentLevel' < currentLevel =>
          /\ currentLevel' = 1
          /\ RunIsReset]_vars

\* the tick in which the score reaches the threshold has raised the level
\* with pipes on screen
C29_Witness ==
  /\ lastResult.op = "frame"
  /\ lastResult.from = PLAYING
  /\ score = LEVEL_2_THRESHOLD
  /\ currentLevel = 2
  /\ activeObjects # << >>

\* C30: one run summary per completed run.  A step that takes the game from
\* Playing to GameOver adds the run's score to the cumulative score once and
\* begins at most one saveScore, for that run's score and level; no other
\* step (a tick or an input in GameOver included) adds to the cumulative
\* score or begins a saveScore.
C30_OneSummaryPerRun ==
  [][IF currentState # GAME_OVER /\ currentState' = GAME_OVER
       THEN /\ currentState = PLAYING
            /\ totalScore' = totalScore + score
            /\ saveScore' \in
                 {saveScore,
                  [pending |-> TRUE, score |-> score, level |-> currentLevel]}
       ELSE /\ totalScore' = totalScore
            /\ saveScore' # saveScore =>
                 /\ lastResult'.op = "saveScoreSettles"
                 /\ ~saveScore'.pending]_vars

\* a jump input has just been handled in GameOver after a run that scored:
\* the cumulative score is still that run's score
C30_Witness ==
  /\ lastResult.op = "jump"
  /\ lastResult.from = GAME_OVER
  /\ currentState = GAME_OVER
  /\ score > 0
  /\ totalScore = score

\* C31: modal input gating.  While a nickname modal or a registration modal
\* is open no keyboard, click or touch input reaches the game controls: no
\* jump input, pause key or restart key is handled then.
C31_ModalGatesInput ==
  [][lastResult'.op \in {"jump", "pauseKey", "restartKey"}
     => ~nickModal /\ regModals = 0]_vars

\* C32: a deferred restart never resets a run in progress.  A restart that
\* showLeaderboard or the registration modal scheduled in GameOver changes
\* nothing when it comes while the game is no longer in GameOver, and
\* leaderboard requests do not stack several restarts.
C32_DeferredRestartInGameOverOnly ==
  [][/\ lastResult'.op \in {"leaderboardRestart", "closeModal"}
          /\ currentState # GAME_OVER =>
          UNCHANGED <<currentState, bird, pool, activeObjects, score,
                      currentLevel, gameTime, lastPipeTime>>
     /\ lbFlows' <= 1]_vars

\* C33: whenever the game is in GameOver the bird is Dead, with velocityY 0,
\* whether the run ended on the floor or on a pipe.
C33_GameOverBirdIsDead ==
  currentState = GAME_OVER =>
    /\ bird.currentState = "dead"
    /\ bird.velocityY = 0

---------------------------------------------------------------------------
(* StateManager properties                                                 *)

CallOps == {"changeState", "pushState", "popState"}

\* the step is a changeState / pushState / popState being called
CallMade == lastResult'.op \in CallOps /\ lastResult'.pc = "start"

\* the step is a call returning (at once, or after its awaits)
CallReturned == lastResult'.op \in CallOps /\ lastResult'.ret # "pending"

\* C34: transition lock.  While one changeState, pushState or popState call
\* is in progress, any other such call returns false at once and changes
\* neither currentState, previousState nor stateStack; and never is more
\* than one call in flight.
C34_TransitionLock ==
  /\ [][CallMade /\ sm.calls # {} =>
          /\ lastResult'.ret = "false"
          /\ sm'.currentState = sm.currentState
          /\ sm'.previousState = sm.previousState
          /\ sm'.stateStack = sm.stateStack]_vars
  /\ [](Cardinality(sm.calls) <= 1)

\* the part of C34 that the isTransitioning test gives: a call made while
\* the flag is set returns false at once and changes nothing
LockedCallsRejected ==
  [][CallMade /\ sm.isTransitioning =>
       lastResult'.ret = "false" /\ UNCHANGED sm]_vars

\* C35: the manager never stays locked.  Every call that is not turned
\* away by the lock ends with isTransitioning false: when it succeeds, when
\* the request is invalid, and when exit(), the constructor or enter()
\* throws.  With no call in flight the flag is false, and where the timers
\* fire and the hooks settle a set flag is always cleared again.
C35_NeverStaysLocked ==
  /\ [][CallReturned /\ lastResult'.cause # "busy" =>
          ~sm'.isTransitioning]_vars
  /\ [](sm.calls = {} => ~sm.isTransitioning)
  /\ (sm.isTransitioning ~> ~sm.isTransitioning)

\* a call has failed in exit(), in the constructor or in enter(), and the
\* manager is unlocked
C35_Witness ==
  /\ lastResult.op \in CallOps
  /\ lastResult.ret = "false"
  /\ lastResult.cause \in {"exit", "constructor", "enter"}
  /\ ~sm.isTransitioning
  /\ sm.calls = {}

\* C36: invalid requests are no-ops.  changeState or pushState with a name
\* that is not registered, and popState with an empty stack, return false
\* and leave the manager as it was: currentState, previousState,
\* stateStack, isTransitioning, and no hook of any state is called.
C36_InvalidRequestsAreNoOps ==
  [][/\ CallMade
     /\ \/ lastResult'.op \in {"changeState", "pushState"}
             /\ lastResult'.name \notin sm.states
        \/ lastResult'.op = "popState" /\ Len(sm.stateStack) = 0
     => lastResult'.ret = "false" /\ UNCHANGED sm]_vars

\* an unregistered name was asked for while a state was current and another
\* was on the stack
C36_Witness ==
  /\ lastResult.op \in {"changeState", "pushState"}
  /\ lastResult.cause = "notFound"
  /\ Truthy(sm.currentState)
  /\ Len(sm.stateStack) > 0

\* C37: push / pop round trip.  A successful pushState from a current state
\* A, followed by a successful popState, makes A (the same object) current
\* again and leaves stateStack as it was before the push; A has been paused
\* once and resumed once and has been neither exited nor entered again, and
\* the pushed state has been entered once and exited once.
C37_PushPopRoundTrip ==
  [][/\ lastResult'.op = "popState"
     /\ lastResult'.ret = "true"
     /\ lastResult'.rt.valid
     /\ Truthy(lastResult'.rt.from)
     => LET push == lastResult'.rt
            A    == sm'.objects[push.from]
            A0   == push.before.hooks
            B    == sm'.objects[push.to]
        IN  /\ sm'.currentState = push.from
            /\ sm'.stateStack = push.before.stateStack
            /\ A.pauses = A0.pauses + 1
            /\ A.resumes = A0.resumes + 1
            /\ A.exits = A0.exits
            /\ A.enters = A0.enters
            /\ B.enters = 1
            /\ B.exits = 1]_vars

\* a popState has undone a pushState made from a current state
C37_Witness ==
  /\ lastResult.op = "popState"
  /\ lastResult.ret = "true"
  /\ lastResult.rt.valid
  /\ Truthy(lastResult.rt.from)
  /\ sm.currentState = lastResult.rt.from
  /\ sm.objects[lastResult.rt.to].exits = 1

\* the step is an update(deltaTime) or a handleInput(inputType, data)
InputMade == lastResult'.op \in {"update", "handleInput"}

\* C38: no update and no input during a transition.  While isTransitioning
\* is true, update calls no state's update and handleInput returns false
\* without calling a state's handleInput; hence a state receives update or
\* input only when its enter() has completed and its exit() has not begun.
C38_NoInputDuringTransition ==
  [][InputMade =>
       /\ sm.isTransitioning =>
            /\ ~lastResult'.delivered
            /\ lastResult'.op = "handleInput" => ~lastResult'.ret
       /\ lastResult'.delivered =>
            /\ sm.objects[lastResult'.to].entered
            /\ sm.objects[lastResult'.to].exits = 0]_vars

\* the part of C38 that the isTransitioning test gives
NoDeliveryWhileTransitioning ==
  [][InputMade /\ sm.isTransitioning =>
       /\ ~lastResult'.delivered
       /\ lastResult'.op = "handleInput" => ~lastResult'.ret]_vars

\* C39: a failed transition leaves the state unchanged.  When the new
\* state's constructor or its enter() throws during changeState or
\* pushState, the call returns false, currentState is still the state that
\* was current when the call was made, that state has not been exited, and
\* stateStack is as it was.
C39_FailedTransitionKeepsState ==
  [][/\ CallReturned
     /\ lastResult'.op \in {"changeState", "pushState"}
     /\ lastResult'.cause \in {"constructor", "enter"}
     => LET before == lastResult'.before
        IN  /\ lastResult'.ret = "false"
            /\ sm'.currentState = before.currentState
            /\ sm'.stateStack = before.stateStack
            /\ Truthy(before.currentState) =>
                 sm'.objects[before.currentState].exits = before.hooks.exits]_vars

\* C40: destroy is final.  A changeState, pushState or popState call that
\* was in progress when destroy() was called does nothing to the manager
\* when it goes on: currentState stays as destroy() left it (null),
\* stateStack stays empty, and no state is constructed and entered.
C40_DestroyIsFinal ==
  [][lastResult'.op \in CallOps /\ lastResult'.destroyed =>
       /\ sm'.currentState = sm.currentState
       /\ sm'.stateStack = sm.stateStack
       /\ Len(sm'.objects) = Len(sm.objects)]_vars

====
